---- MODULE Spec2Model ----
(***************************************************************************)
(* PrioritizedReplayBuffer of cares_reinforcement_learning/memory/         *)
(* prioritised_replay_buffer.py, with the SumTree it owns.                 *)
(*                                                                         *)
(* Arrays of the program (columns, tree levels) are functions over         *)
(* 0..n-1; the lists an operation returns are sequences.  Priorities are   *)
(* integers.  beta is counted in units of its increment 2e-7.  An inverted *)
(* priority is the exact fraction num / den; as a mass of the temporary    *)
(* index it is a fixed-point number in units of 1/InvScale.                *)
(***************************************************************************)
EXTENDS Integers, Sequences, FiniteSets

VARIABLES priority_params, max_capacity, ptr, size, memory_buffers, tree, max_priority, beta,
          ret, returned, nAdds, updated, schema, pending

vars == <<priority_params, max_capacity, ptr, size, memory_buffers, tree, max_priority, beta,
          ret, returned, nAdds, updated, schema, pending>>

\* ---------------------------------------------------------------- bounds
Capacity == 3
Arity == 2
MaxBatch == 2
MaxPrio == 2
MaxBetaSteps == 1
InvScale == 100

ExtraAdds == 2
ScenarioCapacity == 4
HighPrio == 1000
ConfigBeta == 3000000
ConfigIncrement == 2
ConfigEpsilonInv == 1000

\* ------------------------------------------------------ program constants
InitMaxPriority == 1
BetaInit == 2000000
BetaOne == 5000000
EpsilonInv == 1000000

\* the unset placeholder of a freshly allocated column
None == -1
ToleranceInv == 10000

\* ---------------------------------------------------------------- helpers
Min(a, b) == IF a < b THEN a ELSE b
Max(a, b) == IF a > b THEN a ELSE b

RECURSIVE Pow2(_)
Pow2(n) == IF n = 0 THEN 1 ELSE 2 * Pow2(n - 1)

SeqMax(s) == CHOOSE m \in {s[k] : k \in DOMAIN s} : \A k \in DOMAIN s : s[k] <= m
SeqMin(s) == CHOOSE m \in {s[k] : k \in DOMAIN s} : \A k \in DOMAIN s : m <= s[k]

\* np.arange(n) as a list
Arange(n) == [k \in 1..n |-> k - 1]

\* ------------------------------------------------------- the Priority Index
DepthOf(cap) == CHOOSE d \in 0..cap : Pow2(d) >= cap /\ (d = 0 \/ Pow2(d - 1) < cap)

SumTree(cap) == [l \in 0..DepthOf(cap) |-> [j \in 0..(Pow2(l) - 1) |-> 0]]

TreeDepth(t) == Cardinality(DOMAIN t) - 1
NumLeaves(t) == Pow2(TreeDepth(t))
Leaves(t) == t[TreeDepth(t)]
Root(t) == t[0][0]

\* set(leaf_index, priority): the leaf and every ancestor move by the difference
TreeSet(t, ind, v) ==
    LET d == TreeDepth(t)
        diff == v - t[d][ind]
    IN  [l \in DOMAIN t |->
            [j \in DOMAIN t[l] |->
                IF j = ind \div Pow2(d - l) THEN t[l][j] + diff ELSE t[l][j]]]

\* batch_set(indices, priorities): element-wise over the index list, in order
RECURSIVE BatchSetFrom(_, _, _, _)
BatchSetFrom(t, inds, vals, k) ==
    IF k > Len(inds) THEN t
    ELSE BatchSetFrom(TreeSet(t, inds[k], vals[k]), inds, vals, k + 1)

BatchSet(t, inds, vals) == BatchSetFrom(t, inds, vals, 1)

\* set and batch_set fail, before any write, on an index outside the leaves
\* (InvalidIndex) or on a negative priority (InvalidPriority)
BatchSetRejects(t, inds, vals) ==
    \E k \in DOMAIN inds :
        inds[k] < 0 \/ inds[k] >= NumLeaves(t) \/ vals[k] < 0

\* root-to-leaf descent of one drawn value
RECURSIVE DescendFrom(_, _, _, _)
DescendFrom(t, l, node, v) ==
    IF l = TreeDepth(t) THEN node
    ELSE LET left == t[l + 1][2 * node]
         IN  IF v < left THEN DescendFrom(t, l + 1, 2 * node, v)
             ELSE DescendFrom(t, l + 1, 2 * node + 1, v - left)

Descend(t, v) == DescendFrom(t, 0, 0, v)

\* sample(n) for the drawn values vs: leaf 0 throughout when the total is 0
TreeSample(t, vs) ==
    IF Root(t) = 0 THEN [k \in DOMAIN vs |-> 0]
    ELSE [k \in DOMAIN vs |-> Descend(t, vs[k])]

\* sum of the leaves below leaf i
RECURSIVE CumBelow(_, _)
CumBelow(t, i) == IF i = 0 THEN 0 ELSE CumBelow(t, i - 1) + Leaves(t)[i - 1]

\* the values a uniform draw in [0, total) is represented by: both ends of
\* every leaf's interval (0 alone when the total is 0)
DrawValues(t) ==
    IF Root(t) = 0 THEN {0}
    ELSE {v \in UNION {{CumBelow(t, i), CumBelow(t, i) - 1} : i \in 0..NumLeaves(t)} :
            0 <= v /\ v < Root(t)}

\* the lists of n values sample(n) can draw
DrawLists(t, n) == [1..n -> DrawValues(t)]

\* ------------------------------------------------------------ the store
SampleOps == {"sample_uniform", "sample_priority", "sample_inverse_priority"}

\* field j of the record of the n-th add since the last clear (as the tests'
\* add(i, i, i, ...)): distinct for every add and field
RecordField(n, j) == n * Arity + j

Experience(n, a) == [j \in 1..a |-> RecordField(n, j)]

\* what the last operation was called with (n, rec) and what it returned
NoRet(op) == [op |-> op, n |-> 0, rec |-> << >>, raised |-> FALSE, cols |-> << >>,
              indices |-> << >>, weights |-> << >>, inv |-> << >>, prios |-> << >>,
              repeat |-> FALSE, after |-> ""]

\* the keyword arguments of a construction that passes none
NoParams == << >>

\* PrioritizedReplayBuffer(cap, **params)
\* the locals of a sample_priority call in progress: pc is the step reached,
\* locked tells whether the threads of the scenario use one exclusive lock
Idle(locked) == [pc |-> "idle", locked |-> locked, n |-> 0, indices |-> << >>,
                 weights |-> << >>]

StoreInitAs(cap, params, pend) ==
    /\ pending = pend
    /\ priority_params = params
    /\ max_capacity = cap
    /\ ptr = 0
    /\ size = 0
    /\ memory_buffers = << >>
    /\ tree = SumTree(cap)
    /\ max_priority = InitMaxPriority
    /\ beta = BetaInit
    /\ ret = NoRet("init")
    /\ returned = {}
    /\ nAdds = 0
    /\ updated = FALSE
    /\ schema = 0

StoreInitWith(cap, params) == StoreInitAs(cap, params, Idle(FALSE))

StoreInit(cap) == StoreInitWith(cap, NoParams)

Init == StoreInit(Capacity)

\* mutant: the record goes to the slot after the cursor
AddColumnsAhead(bufs, exp, p, cap) ==
    [c \in 1..Max(Len(bufs), Len(exp)) |->
        LET old == IF c <= Len(bufs) THEN bufs[c] ELSE [i \in 0..(cap - 1) |-> None]
        IN  IF c <= Len(exp) THEN [old EXCEPT ![(p + 1) % cap] = exp[c]] ELSE old]

\* add, lines 68-76: columns are created on demand, the record goes to slot p
AddColumns(bufs, exp, p, cap) ==
    [c \in 1..Max(Len(bufs), Len(exp)) |->
        LET old == IF c <= Len(bufs) THEN bufs[c] ELSE [i \in 0..(cap - 1) |-> None]
        IN  IF c <= Len(exp) THEN [old EXCEPT ![p] = exp[c]] ELSE old]

\* mutant: every new record is seeded with the initial priority
AddTreeInitial(t, p, mp) == TreeSet(t, p, InitMaxPriority)

\* mutant: the leaf is written without its ancestors
AddTreeLeafOnly(t, p, mp) == [t EXCEPT ![TreeDepth(t)][p] = mp]

AddTreeAlone(t, p, mp) ==
    TreeSet([l \in DOMAIN t |-> [j \in DOMAIN t[l] |-> 0]], p, mp)

AddTree(t, p, mp) == TreeSet(t, p, mp)

\* mutant: the cursor stops at the last slot instead of wrapping
NextPtrNoWrap(p, cap) == IF p + 1 < cap THEN p + 1 ELSE p

NextPtrEarly(p, cap) == (p + 1) % (cap - 1)

NextPtr(p, cap) == (p + 1) % cap

\* mutant: the size is not clamped at the capacity
NextSizeUnclamped(s, cap) == s + 1

NextSizeStuck(s, cap) == Min(s + 1, cap - 1)

NextSize(s, cap) == Min(s + 1, cap)

Add(a) ==
    /\ nAdds < max_capacity + ExtraAdds
    /\ LET exp == Experience(nAdds, a)
       IN  /\ memory_buffers' = AddColumns(memory_buffers, exp, ptr, max_capacity)
           /\ ret' = [NoRet("add") EXCEPT !.rec = exp]
    /\ tree' = AddTree(tree, ptr, max_priority)
    /\ ptr' = NextPtr(ptr, max_capacity)
    /\ size' = NextSize(size, max_capacity)
    /\ nAdds' = nAdds + 1
    /\ schema' = IF nAdds = 0 THEN a ELSE schema
    /\ UNCHANGED <<pending, priority_params, max_capacity, max_priority, beta, returned, updated>>

\* mutant: the batch size is clamped one below the size
ClampBatchBelow(n, s) == IF n < s THEN n ELSE s - 1

ClampBatch(n, s) == Min(n, s)

\* mutant: the records are gathered in the reverse of the draw order
GatherReversed(bufs, inds) ==
    [c \in DOMAIN bufs |-> [k \in DOMAIN inds |-> bufs[c][inds[Len(inds) + 1 - k]]]]

\* buffer[indices].tolist() for every column
Gather(bufs, inds) == [c \in DOMAIN bufs |-> [k \in DOMAIN inds |-> bufs[c][inds[k]]]]

UniformIndicesWide(s, batch_size) == [1..batch_size -> 0..s]

\* np.random.randint(size, size=batch_size)
UniformIndices(s, batch_size) == [1..batch_size -> 0..(s - 1)]

SampleUniform(n) ==
    LET batch_size == ClampBatch(n, size)
    IN  \E indices \in UniformIndices(size, batch_size) :
            /\ ret' = [NoRet("sample_uniform") EXCEPT
                          !.n = n,
                          !.cols = Gather(memory_buffers, indices),
                          !.indices = indices]
            /\ returned' = returned \cup {indices[k] : k \in DOMAIN indices}
            /\ UNCHANGED <<pending, priority_params, max_capacity, ptr, size, memory_buffers, tree,
                           max_priority, beta, nAdds, updated, schema>>

\* weight_k = leaf_k ^ -beta / max_j leaf_j ^ -beta = (min_j leaf_j / leaf_k) ^ beta,
\* kept as the fraction and the exponent: num = den is 1.0, 0/0 is nan
WeightOf(p, pmin, b) == [num |-> pmin, den |-> p, exp |-> b]

WeightsByMax(t, indices, b) ==
    LET ps == [k \in DOMAIN indices |-> Leaves(t)[indices[k]]]
    IN  [k \in DOMAIN indices |-> WeightOf(ps[k], SeqMax(ps), b)]

\* weights = leaf ** -beta, then weights /= weights.max(): the largest weight
\* is that of the smallest sampled priority
Weights(t, indices, b) ==
    LET ps == [k \in DOMAIN indices |-> Leaves(t)[indices[k]]]
    IN  [k \in DOMAIN indices |-> WeightOf(ps[k], SeqMin(ps), b)]

NextBeta(b) == Min(b + 1, BetaOne)

\* mutant: the drawn value picks a slot whatever the priorities are
PriorityIndicesModulo(t, vs) == [k \in DOMAIN vs |-> vs[k] % NumLeaves(t)]

\* indices = self.tree.sample(batch_size), for the drawn values vs
PriorityIndices(t, vs) == TreeSample(t, vs)

\* sample_priority once tree.sample has returned indices
SamplePriorityWith(n, indices) ==
        /\ beta < BetaInit + MaxBetaSteps
        /\ IF Len(indices) = 0
           THEN \* weights.max() of an empty array raises ValueError
                /\ ret' = [NoRet("sample_priority") EXCEPT !.n = n, !.raised = TRUE]
                /\ UNCHANGED <<beta, returned>>
           ELSE /\ ret' = [NoRet("sample_priority") EXCEPT
                              !.n = n,
                              !.cols = Gather(memory_buffers, indices),
                              !.indices = indices,
                              !.weights = Weights(tree, indices, beta)]
                /\ beta' = NextBeta(beta)
                /\ returned' = returned \cup {indices[k] : k \in DOMAIN indices}
        /\ UNCHANGED <<pending, priority_params, max_capacity, ptr, size, memory_buffers, tree,
                       max_priority, nAdds, updated, schema>>

SamplePriority(n) ==
    \E indices \in {PriorityIndices(tree, vs) : vs \in DrawLists(tree, ClampBatch(n, size))} :
        SamplePriorityWith(n, indices)

ReversedPriorityCoarse(top, leaf) == [num |-> top * InvScale, den |-> leaf * InvScale + 1]

\* top_value / (leaf + 1e-6), as the fraction num / den
ReversedPriority(top, leaf) == [num |-> top * EpsilonInv, den |-> leaf * EpsilonInv + 1]

ReversedPrioritiesByMax(t, s) ==
    [k \in 1..s |->
        ReversedPriority(SeqMax([j \in 1..NumLeaves(t) |-> Leaves(t)[j - 1]]),
                         Leaves(t)[k - 1])]

ReversedPriorities(t, s) == [k \in 1..s |-> ReversedPriority(Root(t), Leaves(t)[k - 1])]

\* a fraction as a leaf value of the temporary tree, in units of 1/InvScale
Mass(r) == (r.num \div r.den) * InvScale + ((r.num % r.den) * InvScale) \div r.den

InverseTree(cap, p, reversed) ==
    BatchSet(SumTree(cap), Arange(p), [k \in DOMAIN reversed |-> Mass(reversed[k])])

SampleInversePriorityInstalls(n) ==
    LET batch_size == ClampBatch(n, size)
        reversed_priorities == ReversedPriorities(tree, size)
        inverse_tree == InverseTree(max_capacity, ptr, reversed_priorities)
    IN  \E indices \in {TreeSample(inverse_tree, vs) : vs \in DrawLists(inverse_tree, batch_size)} :
                /\ ret' = [NoRet("sample_inverse_priority") EXCEPT
                              !.n = n,
                              !.cols = Gather(memory_buffers, indices),
                              !.indices = indices,
                              !.inv = [k \in DOMAIN indices |->
                                          reversed_priorities[indices[k] + 1]]]
                /\ returned' = returned \cup {indices[k] : k \in DOMAIN indices}
                /\ tree' = inverse_tree
                /\ UNCHANGED <<pending, priority_params, max_capacity, ptr, size, memory_buffers,
                               max_priority, beta, nAdds, updated, schema>>

SampleInversePriority(n) ==
    LET batch_size == ClampBatch(n, size)
        reversed_priorities == ReversedPriorities(tree, size)
        inverse_tree == InverseTree(max_capacity, ptr, reversed_priorities)
    IN  \E indices \in {TreeSample(inverse_tree, vs) : vs \in DrawLists(inverse_tree, batch_size)} :
                /\ ret' = [NoRet("sample_inverse_priority") EXCEPT
                              !.n = n,
                              !.cols = Gather(memory_buffers, indices),
                              !.indices = indices,
                              !.inv = [k \in DOMAIN indices |->
                                          reversed_priorities[indices[k] + 1]]]
                /\ returned' = returned \cup {indices[k] : k \in DOMAIN indices}
                /\ UNCHANGED <<pending, priority_params, max_capacity, ptr, size, memory_buffers, tree,
                               max_priority, beta, nAdds, updated, schema>>

UpdateMaxPriorityLast(priorities, mp) == SeqMax(priorities)

UpdateMaxPriorityRaise(priorities, mp) == mp + SeqMax(priorities)

UpdateMaxPriorityKept(priorities, mp) == mp

UpdateMaxPriority(priorities, mp) == Max(SeqMax(priorities), mp)

UpdatePrioritiesKeepHigher(indices, priorities, r) ==
    LET kept == [k \in DOMAIN indices |->
                    Max(priorities[k], Leaves(tree)[indices[k]])]
    IN  /\ max_priority' = UpdateMaxPriority(priorities, max_priority)
        /\ IF BatchSetRejects(tree, indices, priorities)
           THEN /\ tree' = tree
                /\ ret' = [r EXCEPT !.raised = TRUE]
           ELSE /\ tree' = BatchSet(tree, indices, kept)
                /\ ret' = r
        /\ updated' = TRUE
        /\ UNCHANGED <<pending, priority_params, max_capacity, ptr, size, memory_buffers, beta,
                       returned, nAdds, schema>>

UpdatePrioritiesFirstWins(indices, priorities, r) ==
    LET n == Len(indices)
        backwards(s) == [k \in 1..n |-> s[n + 1 - k]]
    IN  /\ max_priority' = UpdateMaxPriority(priorities, max_priority)
        /\ IF BatchSetRejects(tree, indices, priorities)
           THEN /\ tree' = tree
                /\ ret' = [r EXCEPT !.raised = TRUE]
           ELSE /\ tree' = BatchSet(tree, backwards(indices), backwards(priorities))
                /\ ret' = r
        /\ updated' = TRUE
        /\ UNCHANGED <<pending, priority_params, max_capacity, ptr, size, memory_buffers, beta,
                       returned, nAdds, schema>>

\* update_priorities; r is what the call is remembered by.  batch_set
\* refuses a negative priority after line 189 has run.
UpdatePrioritiesAs(indices, priorities, r) ==
    /\ max_priority' = UpdateMaxPriority(priorities, max_priority)
    /\ IF BatchSetRejects(tree, indices, priorities)
       THEN /\ tree' = tree
            /\ ret' = [r EXCEPT !.raised = TRUE]
       ELSE /\ tree' = BatchSet(tree, indices, priorities)
            /\ ret' = r
    /\ updated' = TRUE
    /\ UNCHANGED <<pending, priority_params, max_capacity, ptr, size, memory_buffers, beta, returned, nAdds,
                   schema>>

UpdatePriorities(indices, priorities) ==
    UpdatePrioritiesAs(indices, priorities, NoRet("update_priorities"))

\* the same call, remembered with its arguments
UpdatePrioritiesLogged(indices, priorities) ==
    UpdatePrioritiesAs(indices, priorities,
        [NoRet("update_priorities") EXCEPT
            !.indices = indices,
            !.prios = priorities,
            !.repeat = /\ ret.op = "update_priorities"
                       /\ ret.indices = indices
                       /\ ret.prios = priorities])

ClearKeepsTree ==
    /\ ptr' = 0
    /\ size' = 0
    /\ memory_buffers' = << >>
    /\ max_priority' = InitMaxPriority
    /\ beta' = BetaInit
    /\ ret' = NoRet("clear")
    /\ nAdds' = 0
    /\ updated' = FALSE
    /\ schema' = 0
    /\ UNCHANGED <<pending, priority_params, max_capacity, returned, tree>>

ClearKeepsPriority ==
    /\ ptr' = 0
    /\ size' = 0
    /\ memory_buffers' = << >>
    /\ tree' = SumTree(max_capacity)
    /\ beta' = BetaInit
    /\ ret' = NoRet("clear")
    /\ nAdds' = 0
    /\ updated' = FALSE
    /\ schema' = 0
    /\ UNCHANGED <<pending, priority_params, max_capacity, returned, max_priority>>

Clear ==
    /\ ptr' = 0
    /\ size' = 0
    /\ memory_buffers' = << >>
    /\ tree' = SumTree(max_capacity)
    /\ max_priority' = InitMaxPriority
    /\ beta' = BetaInit
    /\ ret' = NoRet("clear")
    /\ nAdds' = 0
    /\ updated' = FALSE
    /\ schema' = 0
    /\ UNCHANGED <<pending, priority_params, max_capacity, returned>>

FlushColumnsWhole(bufs, s) ==
    [c \in DOMAIN bufs |-> [k \in 1..Cardinality(DOMAIN bufs[c]) |-> bufs[c][k - 1]]]

FlushColumnsRotated(bufs, s) ==
    [c \in DOMAIN bufs |-> [k \in 1..s |-> bufs[c][k % s]]]

\* buffer[0 : self.size].tolist() for every column
FlushColumns(bufs, s) == [c \in DOMAIN bufs |-> [k \in 1..s |-> bufs[c][k - 1]]]

Flush ==
    /\ ptr' = 0
    /\ size' = 0
    /\ memory_buffers' = << >>
    /\ tree' = SumTree(max_capacity)
    /\ max_priority' = InitMaxPriority
    /\ beta' = BetaInit
    /\ ret' = [NoRet("flush") EXCEPT !.cols = FlushColumns(memory_buffers, size)]
    /\ nAdds' = 0
    /\ updated' = FALSE
    /\ schema' = 0
    /\ UNCHANGED <<pending, priority_params, max_capacity, returned>>

\* the caller passes update_priorities indices it got from earlier sample_* calls
Next ==
    \/ \E a \in {Arity} : Add(a)
    \/ \E n \in 1..MaxBatch : SampleUniform(n)
    \/ \E n \in 1..MaxBatch : SamplePriority(n)
    \/ \E n \in 1..MaxBatch : SampleInversePriority(n)
    \/ \E len \in 1..MaxBatch : \E indices \in [1..len -> returned] :
          \E priorities \in [1..len -> 0..MaxPrio] :
             UpdatePriorities(indices, priorities)
    \/ Flush
    \/ Clear

Spec == Init /\ [][Next]_vars

\* ------------------------------------------------ the priority-bias scenario
\* A store of ScenarioCapacity slots is filled, update_priorities([0..c-1], ps)
\* assigns every slot a priority, and sample_priority(1) is called.
ScenarioPrios == {0, 1, HighPrio}

InitScenario == StoreInit(ScenarioCapacity)

ScenarioAdd == size < max_capacity /\ Add(Arity)

ScenarioUpdate ==
    /\ size = max_capacity
    /\ ~updated
    /\ \E priorities \in [1..max_capacity -> ScenarioPrios] :
          UpdatePriorities(Arange(max_capacity), priorities)

\* every integer value of [0, total) is drawn
ScenarioSample ==
    /\ updated
    /\ \E v \in 0..Max(Root(tree) - 1, 0) :
          SamplePriorityWith(1, PriorityIndices(tree, <<v>>))

NextScenario == ScenarioAdd \/ ScenarioUpdate \/ ScenarioSample

SpecScenario == InitScenario /\ [][NextScenario]_vars

\* --------------------------------------------------- the update scenario
\* Calls of update_priorities are remembered with their arguments; the caller
\* passes indices earlier sample_uniform calls returned and any priorities,
\* negative ones included.
UpdatePrios == -1..MaxPrio

UpdateCall ==
    \E len \in 1..MaxBatch : \E indices \in [1..len -> returned] :
       \E priorities \in [1..len -> UpdatePrios] :
          UpdatePrioritiesLogged(indices, priorities)

\* the store is filled at most once between two clears
UpdateAdd == size < max_capacity /\ Add(Arity)

NextUpdate ==
    \/ UpdateAdd
    \/ \E n \in 1..MaxBatch : SampleUniform(n)
    \/ UpdateCall
    \/ Clear

SpecUpdate == Init /\ [][NextUpdate]_vars

\* ------------------------------------------------ the valid-index scenario
\* As Next, but the caller passes update_priorities only indices below size.
ValidUpdate ==
    \E len \in 1..MaxBatch :
       \E indices \in [1..len -> {i \in returned : i < size}] :
          \E priorities \in [1..len -> 0..MaxPrio] :
             UpdatePriorities(indices, priorities)

NextValid ==
    \/ Add(Arity)
    \/ \E n \in 1..MaxBatch : SampleUniform(n)
    \/ \E n \in 1..MaxBatch : SamplePriority(n)
    \/ \E n \in 1..MaxBatch : SampleInversePriority(n)
    \/ ValidUpdate
    \/ Flush
    \/ Clear

SpecValid == Init /\ [][NextValid]_vars

\* ------------------------------------------------ the stale-index scenario
\* Indices are sampled while every slot still holds its first record, adds go
\* on past the capacity and overwrite slots, and update_priorities is called
\* with sampled indices; no clear or flush takes place.
StaleSample ==
    /\ nAdds <= max_capacity
    /\ \E n \in 1..MaxBatch : SampleUniform(n) \/ SamplePriority(n)

StaleUpdate ==
    \E len \in 1..MaxBatch : \E indices \in [1..len -> returned] :
       \E priorities \in [1..len -> 0..MaxPrio] :
          UpdatePrioritiesLogged(indices, priorities)

NextStale ==
    \/ Add(Arity)
    \/ StaleSample
    \/ StaleUpdate

SpecStale == Init /\ [][NextStale]_vars

\* ------------------------------------------------ the two-thread scenario
\* One thread runs sample_priority as three steps (draw the indices, read the
\* leaf priorities for the weights, gather the records); a second thread
\* calls add and update_priorities.  The store takes no lock: where
\* pending.locked holds the threads wrap every call in one exclusive lock of
\* their own, elsewhere the second thread runs between the steps.
InitConcurrent ==
    \E locked \in BOOLEAN : StoreInitAs(Capacity, NoParams, Idle(locked))

\* the second thread may enter a store operation
LockFree == pending.locked => pending.pc = "idle"

\* lines 119-120
DrawStep(n) ==
    /\ pending.pc = "idle"
    /\ beta < BetaInit + MaxBetaSteps
    /\ \E indices \in {PriorityIndices(tree, vs) :
                           vs \in DrawLists(tree, ClampBatch(n, size))} :
          pending' = [pending EXCEPT !.pc = "drawn", !.n = n, !.indices = indices]
    /\ UNCHANGED <<priority_params, max_capacity, ptr, size, memory_buffers, tree,
                   max_priority, beta, ret, returned, nAdds, updated, schema>>

\* lines 122-126
WeighStep ==
    /\ pending.pc = "drawn"
    /\ IF Len(pending.indices) = 0
       THEN \* weights.max() of an empty array raises ValueError
            /\ ret' = [NoRet("sample_priority") EXCEPT
                          !.n = pending.n, !.raised = TRUE]
            /\ pending' = Idle(pending.locked)
            /\ beta' = beta
       ELSE /\ pending' = [pending EXCEPT
                              !.pc = "weighed",
                              !.weights = Weights(tree, pending.indices, beta)]
            /\ beta' = NextBeta(beta)
            /\ ret' = ret
    /\ UNCHANGED <<priority_params, max_capacity, ptr, size, memory_buffers, tree,
                   max_priority, returned, nAdds, updated, schema>>

\* lines 128-138
GatherStep ==
    /\ pending.pc = "weighed"
    /\ ret' = [NoRet("sample_priority") EXCEPT
                  !.n = pending.n,
                  !.cols = Gather(memory_buffers, pending.indices),
                  !.indices = pending.indices,
                  !.weights = pending.weights]
    /\ returned' = returned \cup {pending.indices[k] : k \in DOMAIN pending.indices}
    /\ pending' = Idle(pending.locked)
    /\ UNCHANGED <<priority_params, max_capacity, ptr, size, memory_buffers, tree,
                   max_priority, beta, nAdds, updated, schema>>

ConcurrentAddUnlocked == size < max_capacity /\ Add(Arity)

ConcurrentAdd == LockFree /\ size < max_capacity /\ Add(Arity)

ConcurrentUpdateUnlocked ==
    \E i \in 0..(size - 1) : \E p \in 0..MaxPrio :
       UpdatePriorities(<<i>>, <<p>>)

ConcurrentUpdate ==
    /\ LockFree
    /\ \E i \in 0..(size - 1) : \E p \in 0..MaxPrio :
          UpdatePriorities(<<i>>, <<p>>)

NextConcurrent ==
    \/ \E n \in 1..MaxBatch : DrawStep(n)
    \/ WeighStep
    \/ GatherStep
    \/ ConcurrentAdd
    \/ ConcurrentUpdate

SpecConcurrent == InitConcurrent /\ [][NextConcurrent]_vars

\* ------------------------------------------------- the training scenario
\* LA3PTD3.train_policy and LA3PSAC.train_policy (the same body, with
\* policy_update_freq 2 and 1) called on a store that holds records; records
\* are added between the calls.  pending holds the trainer's fields and the
\* locals of the call, ret the last thing the call did.
PolicyUpdateFreqs == {1, 2}

Trainer(freq) ==
    [pc |-> "idle", learn_counter |-> 0, policy_update_freq |-> freq,
     policy_update |-> 0, uniform_batch_size |-> 0, priority_batch_size |-> 0]

InitTrain ==
    \E freq \in PolicyUpdateFreqs : StoreInitAs(Capacity, NoParams, Trainer(freq))

TrainAdd == pending.pc = "idle" /\ Add(Arity)

\* lines 179-184; the call runs to its end once per step of beta
TrainBegin ==
    /\ pending.pc = "idle"
    /\ size >= 1
    /\ beta < BetaInit + MaxBetaSteps
    /\ \E u \in 1..MaxBatch, p \in 1..MaxBatch :
          pending' = [pending EXCEPT
                         !.pc = "train",
                         !.learn_counter = @ + 1,
                         !.policy_update = (pending.learn_counter + 1)
                                              % pending.policy_update_freq,
                         !.uniform_batch_size = u,
                         !.priority_batch_size = p]
    /\ ret' = NoRet("train_policy")
    /\ UNCHANGED <<priority_params, max_capacity, ptr, size, memory_buffers, tree,
                   max_priority, beta, returned, nAdds, updated, schema>>

\* line 187
TrainUniform ==
    /\ pending.pc = "train"
    /\ ret.op = "train_policy"
    /\ SampleUniform(pending.uniform_batch_size)

\* lines 190-199 and 209-218: the priorities _train_critic returns are one
\* non-negative number for each sampled record
TrainUpdate(after) ==
    /\ pending.pc = "train"
    /\ ret.op = after
    /\ ~ret.raised
    /\ \E priorities \in [1..Len(ret.indices) -> 0..MaxPrio] :
          UpdatePrioritiesAs(ret.indices, priorities,
              [NoRet("update_priorities") EXCEPT
                  !.indices = ret.indices,
                  !.prios = priorities,
                  !.after = after])

\* line 206
TrainPriority ==
    /\ pending.pc = "train"
    /\ ret.op = "update_priorities"
    /\ ret.after = "sample_uniform"
    /\ SamplePriority(pending.priority_batch_size)

TrainInverseEveryCall ==
    /\ pending.pc = "train"
    /\ ret.op = "update_priorities"
    /\ ret.after = "sample_priority"
    /\ SampleInversePriority(pending.priority_batch_size)

\* lines 221-222
TrainInverse ==
    /\ pending.pc = "train"
    /\ ret.op = "update_priorities"
    /\ ret.after = "sample_priority"
    /\ pending.policy_update # 0
    /\ SampleInversePriority(pending.priority_batch_size)

\* the call returns
TrainEnd ==
    /\ pending.pc = "train"
    /\ \/ ret.op = "sample_inverse_priority"
       \/ /\ ret.op = "update_priorities"
          /\ ret.after = "sample_priority"
          /\ pending.policy_update = 0
    /\ pending' = [pending EXCEPT !.pc = "idle"]
    /\ UNCHANGED <<priority_params, max_capacity, ptr, size, memory_buffers, tree,
                   max_priority, beta, ret, returned, nAdds, updated, schema>>

NextTrain ==
    \/ TrainAdd
    \/ TrainBegin
    \/ TrainUniform
    \/ TrainUpdate("sample_uniform")
    \/ TrainPriority
    \/ TrainUpdate("sample_priority")
    \/ TrainInverse
    \/ TrainEnd

SpecTrain == InitTrain /\ [][NextTrain]_vars

\* --------------------------------------------- the inverse-bias scenario
\* A store of 2..Capacity slots is filled, one update_priorities call gives
\* one slot the priority HighPrio and every other slot a low priority, and
\* sample_inverse_priority is called.
InverseCapacities == 2..Capacity

InitInverse == \E cap \in InverseCapacities : StoreInit(cap)

InverseAdd == size < max_capacity /\ ~updated /\ Add(Arity)

InverseUpdate ==
    /\ size >= 2
    /\ ~updated
    /\ \E high \in 1..size : \E low \in [1..size -> 1..MaxPrio] :
          UpdatePriorities(Arange(size),
                           [k \in 1..size |-> IF k = high THEN HighPrio ELSE low[k]])

InverseSample == \E n \in 1..MaxBatch : SampleInversePriority(n)

NextInverse == InverseAdd \/ InverseUpdate \/ InverseSample

SpecInverse == InitInverse /\ [][NextInverse]_vars

\* --------------------------------------------- the configuration scenario
\* The store is constructed with no keyword arguments or with a bag of the
\* three tunables: initial_beta and beta_increment in units of 2e-7, epsilon
\* as its inverse.
ConfigBags ==
    {NoParams} \cup
    [initial_beta : {BetaInit, ConfigBeta},
     beta_increment : {1, ConfigIncrement},
     epsilon_inv : {EpsilonInv, ConfigEpsilonInv}]

InitConfig == \E params \in ConfigBags : StoreInitWith(Capacity, params)

ConfigAdd == size < max_capacity /\ Add(Arity)

NextConfig ==
    \/ ConfigAdd
    \/ \E n \in 1..MaxBatch : SamplePriority(n)
    \/ \E n \in 1..MaxBatch : SampleInversePriority(n)
    \/ Clear

SpecConfig == InitConfig /\ [][NextConfig]_vars

\* --------------------------------------------------- the schema scenario
\* Records of any arity in SchemaArities are handed to add.
SchemaArities == 1..(Arity + 1)

NextSchema ==
    \/ \E a \in SchemaArities : Add(a)
    \/ \E n \in 1..MaxBatch : SampleUniform(n)
    \/ Flush
    \/ Clear

SpecSchema == Init /\ [][NextSchema]_vars
\* ------------------------------------------------------------------ claims
\* the record of the most recent add since the last clear
LastRecord == Experience(nAdds - 1, Arity)

\* slot s holds record rec: every field of rec is in its column at s
SlotHolds(s, rec) ==
    /\ Len(memory_buffers) >= Len(rec)
    /\ \A c \in 1..Len(rec) : memory_buffers[c][s] = rec[c]

\* C1: every index a sample_* call returns lies in [0, size), update_priorities
\* having been called only with indices a sample_* call returned earlier.
C1_SampleIndexInRange ==
    (ret.op \in SampleOps /\ ~ret.raised) =>
        \A k \in DOMAIN ret.indices : 0 <= ret.indices[k] /\ ret.indices[k] < size

\* C2: 0 <= len() <= capacity always, and len() = capacity once capacity + k
\* records (k >= 0) were added to an empty store.
C2_CapacityInvariant ==
    /\ 0 <= size
    /\ size <= max_capacity
    /\ nAdds >= max_capacity => size = max_capacity

C2_Witness == nAdds > max_capacity /\ size = max_capacity

\* C3 as stated: after capacity + k adds on an empty store, slot
\* (capacity + k) mod capacity holds the most recently added record.
C3_Original ==
    nAdds >= max_capacity => SlotHolds(nAdds % max_capacity, LastRecord)

\* C3 amended: after capacity + k adds on an empty store, slot
\* (capacity + k - 1) mod capacity holds the most recently added record.
C3_LastRecordSlot ==
    nAdds >= max_capacity => SlotHolds((nAdds - 1) % max_capacity, LastRecord)

C3_Witness == nAdds = max_capacity + 1 /\ SlotHolds(0, LastRecord)
\* C4: add writes every field of the record into the slot the write cursor
\* named before the call, then write_cursor = (write_cursor + 1) mod capacity
\* and size = min(size + 1, capacity).
C4_AddEffect ==
    [][ret'.op = "add" =>
          /\ Len(memory_buffers') >= Len(ret'.rec)
          /\ \A c \in 1..Len(ret'.rec) : memory_buffers'[c][ptr] = ret'.rec[c]
          /\ ptr' = (ptr + 1) % max_capacity
          /\ size' = IF size + 1 < max_capacity THEN size + 1 ELSE max_capacity]_vars

C4_Witness == ret.op = "add" /\ nAdds > max_capacity /\ ptr = 1

\* C5: right after add, the leaf of the slot just written equals
\* max_priority_seen as it was at the call (1.0 when no update_priorities
\* happened since construction or the last clear), whatever the slot held.
C5_AddSeedsMaxPriority ==
    [][ret'.op = "add" =>
          /\ Leaves(tree')[ptr] = max_priority
          /\ ~updated => Leaves(tree')[ptr] = InitMaxPriority]_vars

C5_Witness ==
    /\ ret.op = "add"
    /\ nAdds > max_capacity
    /\ max_priority > InitMaxPriority
    /\ Leaves(tree)[(ptr + max_capacity - 1) % max_capacity] = max_priority

\* C6: every internal node of the Priority Index equals the sum of its two
\* children, and the root equals the sum of all leaves.
C6_SumConsistency ==
    /\ \A l \in 0..(TreeDepth(tree) - 1) : \A j \in DOMAIN tree[l] :
          tree[l][j] = tree[l + 1][2 * j] + tree[l + 1][2 * j + 1]
    /\ Root(tree) = CumBelow(tree, NumLeaves(tree))

C6_Witness ==
    /\ updated
    /\ nAdds > max_capacity
    /\ \E i, j \in 0..(size - 1) : Leaves(tree)[i] = 0 /\ Leaves(tree)[j] = MaxPrio

\* the ordinal of the most recent add that wrote slot s (s < nAdds)
LastOrdinalAt(s) == (nAdds - 1) - ((nAdds - 1 - s) % max_capacity)

\* C8: the k-th entry of every column a sample_* call returns is the field
\* the most recent add to slot indices[k] stored, for every position k.
C8_GatherAligned ==
    (ret.op \in SampleOps /\ ~ret.raised /\ size >= 1) =>
        /\ Len(ret.cols) = Arity
        /\ \A c \in DOMAIN ret.cols : \A k \in DOMAIN ret.indices :
              /\ k \in DOMAIN ret.cols[c]
              /\ ret.indices[k] < nAdds =>
                    ret.cols[c][k] = RecordField(LastOrdinalAt(ret.indices[k]), c)

C8_Witness ==
    /\ ret.op \in SampleOps
    /\ nAdds > max_capacity
    /\ Len(ret.indices) = 2
    /\ ret.indices[1] > ret.indices[2]

\* C9: with size >= 1 and n >= 1 every sample_* call returns exactly
\* min(n, size) indices, and every column and the weight or inverse-priority
\* list has that length.
C9_Clamping ==
    (ret.op \in SampleOps /\ size >= 1) =>
        LET m == IF ret.n < size THEN ret.n ELSE size
        IN  /\ ~ret.raised
            /\ Len(ret.indices) = m
            /\ \A c \in DOMAIN ret.cols : Len(ret.cols[c]) = m
            /\ ret.op = "sample_priority" => Len(ret.weights) = m
            /\ ret.op = "sample_inverse_priority" => Len(ret.inv) = m

C9_Witness ==
    /\ ret.op = "sample_inverse_priority"
    /\ size = 1
    /\ ret.n = 2
    /\ Len(ret.indices) = 1

\* C10: with size = 0 every sample_* call returns an empty result (no index,
\* no weight) rather than raising, and leaves the store unchanged.
C10_EmptySample ==
    [][(ret'.op \in SampleOps /\ size = 0) =>
          /\ ~ret'.raised
          /\ ret'.indices = << >>
          /\ ret'.weights = << >>
          /\ ret'.inv = << >>
          /\ UNCHANGED <<max_capacity, ptr, size, memory_buffers, tree,
                         max_priority, beta>>]_vars
\* the leaves are ps[1], ps[2], ... in the first slots and 0 in all others
LeavesAre(ps) ==
    \A i \in 0..(NumLeaves(tree) - 1) :
        Leaves(tree)[i] = IF i < Len(ps) THEN ps[i + 1] ELSE 0

\* C7: with integer priorities of total T > 0, sample_priority maps every
\* drawn value v of [0, T) to the leaf i with sum_{j<i} p_j <= v <
\* sum_{j<=i} p_j, so exactly p_i of the T values select leaf i and a leaf of
\* priority 0 is never selected; [1,1,1,1000] gives leaf 3 1000 of 1003
\* values, [1,1000] gives the high slot 1000 of 1001.
C7_PriorityLaw ==
    /\ (ret.op = "update_priorities" /\ Root(tree) > 0) =>
        LET T == Root(tree)
            leaf == [v \in 0..(T - 1) |-> PriorityIndices(tree, <<v>>)[1]]
            cum == [i \in 0..NumLeaves(tree) |-> CumBelow(tree, i)]
            count(i) == Cardinality({v \in 0..(T - 1) : leaf[v] = i})
        IN  /\ \A v \in 0..(T - 1) :
                  /\ leaf[v] \in 0..(NumLeaves(tree) - 1)
                  /\ cum[leaf[v]] <= v
                  /\ v < cum[leaf[v] + 1]
            /\ \A i \in 0..(NumLeaves(tree) - 1) : count(i) = Leaves(tree)[i]
            /\ LeavesAre(<<1, 1, 1, HighPrio>>) => T = HighPrio + 3 /\ count(3) = HighPrio
            /\ LeavesAre(<<1, HighPrio>>) => T = HighPrio + 1 /\ count(1) = HighPrio
    /\ (ret.op = "sample_priority" /\ Root(tree) > 0) =>
        Leaves(tree)[ret.indices[1]] > 0

\* the call remembered in the next state got valid, pairwise distinct indices
\* and non-negative priorities
ValidUpdateCall ==
    /\ ret'.op = "update_priorities"
    /\ \A k \in DOMAIN ret'.indices :
          /\ 0 <= ret'.indices[k] /\ ret'.indices[k] < size
          /\ ret'.prios[k] >= 0
          /\ \A j \in DOMAIN ret'.indices : j # k => ret'.indices[j] # ret'.indices[k]

\* C11: update_priorities with valid, pairwise distinct indices and
\* non-negative priorities sets max_priority to the larger of its old value and
\* the largest given priority, makes the leaf at indices[k] equal to
\* priorities[k] for every k and leaves every other leaf unchanged.
C11_UpdateEffect ==
    [][ValidUpdateCall =>
          /\ ~ret'.raised
          /\ max_priority' >= max_priority
          /\ \A k \in DOMAIN ret'.prios : max_priority' >= ret'.prios[k]
          /\ \/ max_priority' = max_priority
             \/ \E k \in DOMAIN ret'.prios : max_priority' = ret'.prios[k]
          /\ \A k \in DOMAIN ret'.indices :
                Leaves(tree')[ret'.indices[k]] = ret'.prios[k]
          /\ \A i \in 0..(NumLeaves(tree) - 1) :
                (\A k \in DOMAIN ret'.indices : ret'.indices[k] # i)
                    => Leaves(tree')[i] = Leaves(tree)[i]
          /\ Root(tree') = CumBelow(tree', NumLeaves(tree'))]_vars

C11_Witness ==
    /\ ret.op = "update_priorities"
    /\ ~ret.raised
    /\ ret.indices = <<1, 0>>
    /\ ret.prios = <<2, 0>>
    /\ size = 2
    /\ Leaves(tree)[1] = 2
    /\ Leaves(tree)[0] = 0
    /\ max_priority = 2

\* the call remembered in the next state got an index that is not a valid slot
\* or a negative priority
InvalidUpdateCall ==
    /\ ret'.op = "update_priorities"
    /\ \E k \in DOMAIN ret'.indices :
          ret'.indices[k] >= size \/ ret'.prios[k] < 0

\* C12: update_priorities fails when an index is not a valid slot index
\* (>= size) or a priority is negative, and the failed call leaves every leaf,
\* the root and max_priority unchanged.
C12_UpdateRejected ==
    [][InvalidUpdateCall =>
          /\ ret'.raised
          /\ tree' = tree
          /\ max_priority' = max_priority]_vars

\* C13: once the first add has fixed the arity, an add with another number of
\* fields fails and leaves the columns, the write cursor, the size, the
\* Priority Index and max_priority unchanged.
C13_SchemaMismatch ==
    [][(ret'.op = "add" /\ nAdds >= 1 /\ Len(ret'.rec) # schema) =>
          /\ ret'.raised
          /\ memory_buffers' = memory_buffers
          /\ ptr' = ptr
          /\ size' = size
          /\ tree' = tree
          /\ max_priority' = max_priority]_vars

\* C14: for every slot index i < size every column holds at i a value written
\* by an add, not the unset placeholder, and the leaf at i is non-negative.
C14_ValidSlots ==
    \A i \in 0..(size - 1) :
        /\ \A c \in DOMAIN memory_buffers : memory_buffers[c][i] # None
        /\ Leaves(tree)[i] >= 0

\* the largest leaf priority of the Priority Index
MaxLeaf == SeqMax([j \in 1..NumLeaves(tree) |-> Leaves(tree)[j - 1]])

\* the sum of all leaf priorities of the Priority Index
LeafSum == CumBelow(tree, NumLeaves(tree))

\* the temporary index sample_inverse_priority builds in the current state
TemporaryIndex == InverseTree(max_capacity, ptr, ReversedPriorities(tree, size))

\* C15: in every state with size >= 1, also after wraparound where ptr differs
\* from size, sample_inverse_priority populates its temporary index with the
\* inverted priority of slot i at leaf i for every i < size and with 0 at every
\* other leaf, and draws its indices from that index.
C15_InversePopulated ==
    (ret.op = "sample_inverse_priority" /\ size >= 1) =>
        /\ \A i \in 0..(NumLeaves(TemporaryIndex) - 1) :
              Leaves(TemporaryIndex)[i] =
                 IF i < size THEN Mass(ReversedPriorities(tree, size)[i + 1]) ELSE 0
        /\ \E vs \in DrawLists(TemporaryIndex, Len(ret.indices)) :
              ret.indices = TreeSample(TemporaryIndex, vs)
        /\ \A k \in DOMAIN ret.indices :
              \/ Leaves(TemporaryIndex)[ret.indices[k]] > 0
              \/ Root(TemporaryIndex) = 0 /\ LeafSum = 0

\* C16 as stated: the inverted priority returned for a sampled slot i is
\* top / (leaf_i + epsilon) with top the largest leaf priority.
C16_Original ==
    ret.op = "sample_inverse_priority" =>
        \A k \in DOMAIN ret.indices :
            /\ ret.inv[k].num = MaxLeaf * EpsilonInv
            /\ ret.inv[k].den = Leaves(tree)[ret.indices[k]] * EpsilonInv + 1

\* C16 amended: the inverted priority returned for a sampled slot i is
\* top / (leaf_i + epsilon) with top the root of the Priority Index, the sum
\* of all its leaf priorities.
C16_InverseValues ==
    ret.op = "sample_inverse_priority" =>
        /\ Len(ret.inv) = Len(ret.indices)
        /\ \A k \in DOMAIN ret.indices :
              /\ ret.indices[k] < size
              /\ ret.inv[k].num = LeafSum * EpsilonInv
              /\ ret.inv[k].den = Leaves(tree)[ret.indices[k]] * EpsilonInv + 1

C16_Witness ==
    /\ ret.op = "sample_inverse_priority"
    /\ size = 2
    /\ Leaves(tree)[0] = 1
    /\ Leaves(tree)[1] = 2
    /\ ret.indices = <<1>>
    /\ ret.inv = <<[num |-> 3 * EpsilonInv, den |-> 2 * EpsilonInv + 1]>>

C18_InverseBias ==
    ret.op = "sample_inverse_priority" =>
        LET r == ReversedPriorities(tree, size)
            leaf == Leaves(tree)
            mass == Leaves(TemporaryIndex)
            total == Root(TemporaryIndex)
        IN  /\ \A i, j \in 1..size :
                  leaf[i - 1] < leaf[j - 1] =>
                      r[i].num = r[j].num /\ r[i].num > 0 /\ r[i].den < r[j].den
            /\ \A lo, hi \in 0..1 :
                  (size = 2 /\ leaf[lo] = 1 /\ leaf[hi] = HighPrio) =>
                      /\ r[lo + 1].num = r[hi + 1].num
                      /\ r[hi + 1].den = HighPrio * EpsilonInv + 1
                      /\ r[hi + 1].den + r[lo + 1].den = (HighPrio + 1) * EpsilonInv + 2
                      /\ total > 0
                      /\ mass[lo] * (HighPrio + 1) - HighPrio * total <= HighPrio + 1
                      /\ HighPrio * total - mass[lo] * (HighPrio + 1) <= HighPrio + 1

\* C19: for a non-empty batch of sample_priority whose sampled leaf priorities
\* are all positive, weight k is (lowest sampled priority / priority k) ^ beta
\* with beta as it was before the call's increment; the largest weight is
\* exactly 1 and belongs to the sampled slot of lowest priority, every weight
\* is in (0, 1], and a batch of one item or of equal priorities has all
\* weights 1.
C19_Weights ==
    [][(/\ ret'.op = "sample_priority"
        /\ ~ret'.raised
        /\ \A k \in DOMAIN ret'.indices : Leaves(tree)[ret'.indices[k]] > 0) =>
          LET w == ret'.weights
              p == [k \in DOMAIN ret'.indices |-> Leaves(tree)[ret'.indices[k]]]
          IN  /\ Len(w) = Len(p)
              /\ Len(w) >= 1
              /\ \A k \in DOMAIN w :
                    /\ w[k].exp = beta
                    /\ w[k].den = p[k]
                    /\ \A j \in DOMAIN p : w[k].num <= p[j]
                    /\ \E j \in DOMAIN p : w[k].num = p[j]
                    /\ 0 < w[k].num
                    /\ w[k].num <= w[k].den
              /\ \E k \in DOMAIN w :
                    /\ w[k].num = w[k].den
                    /\ \A j \in DOMAIN p : p[k] <= p[j]
              /\ (\A j, k \in DOMAIN p : p[j] = p[k]) =>
                    \A k \in DOMAIN w : w[k].num = w[k].den]_vars

C19_Witness ==
    /\ ret.op = "sample_priority"
    /\ ~ret.raised
    /\ ret.indices = <<0, 1>>
    /\ Leaves(tree)[0] = 2
    /\ Leaves(tree)[1] = 1
    /\ beta = BetaInit + 1
    /\ ret.weights = <<[num |-> 1, den |-> 2, exp |-> BetaInit],
                       [num |-> 1, den |-> 1, exp |-> BetaInit]>>

\* the columns a sample returns when it returns the record rec alone
OnlyRecord(rec) == [c \in DOMAIN rec |-> <<rec[c]>>]

\* C20: on a store holding exactly one record, one add after construction or
\* clear and no update_priorities call, sample_uniform(1) returns that record
\* with indices [0], and sample_priority(1) returns that record with indices
\* [0] and weights [1.0].
C20_SingleRecord ==
    (nAdds = 1 /\ ~updated /\ ret.n = 1) =>
        /\ ret.op = "sample_uniform" =>
              /\ ret.indices = <<0>>
              /\ ret.cols = OnlyRecord(Experience(0, Arity))
        /\ ret.op = "sample_priority" =>
              /\ ~ret.raised
              /\ ret.indices = <<0>>
              /\ ret.cols = OnlyRecord(Experience(0, Arity))
              /\ Len(ret.weights) = 1
              /\ ret.weights[1].num = ret.weights[1].den
              /\ ret.weights[1].num > 0

C20_Witness ==
    /\ nAdds = 1
    /\ ~updated
    /\ size = 1
    /\ ret.op = "sample_priority"
    /\ ret.n = 1
    /\ ret.indices = <<0>>
    /\ ret.cols = OnlyRecord(LastRecord)
    /\ ret.weights = <<[num |-> 1, den |-> 1, exp |-> BetaInit]>>

\* C21: flush returns exactly size records per column, size as it was before
\* the call, after which len() = 0; the next add writes to slot 0 and makes
\* len() = 1.
C21_FlushThenAdd ==
    [][/\ ret'.op = "flush" =>
             /\ Len(ret'.cols) = Len(memory_buffers)
             /\ \A c \in DOMAIN ret'.cols : Len(ret'.cols[c]) = size
             /\ size' = 0
             /\ ptr' = 0
             /\ nAdds' = 0
       /\ (ret'.op = "add" /\ nAdds = 0) =>
             /\ size' = 1
             /\ Len(memory_buffers') >= Len(ret'.rec)
             /\ \A c \in DOMAIN ret'.rec : memory_buffers'[c][0] = ret'.rec[c]]_vars

C21_Witness ==
    /\ ret.op = "flush"
    /\ Len(ret.cols) = Arity
    /\ Len(ret.cols[1]) = 2
    /\ max_capacity > 2
    /\ size = 0

\* C22: flush returns the records of slots 0..size-1 in slot order, entry j
\* being the record of the latest add whose ordinal is congruent to j mod
\* capacity: insertion order while the buffer has not wrapped, and not
\* chronological after more than capacity adds whenever ptr # 0.
C22_FlushSlotOrder ==
    [][ret'.op = "flush" =>
          /\ \A c \in DOMAIN ret'.cols : \A j \in 0..(size - 1) :
                /\ LastOrdinalAt(j) % max_capacity = j
                /\ LastOrdinalAt(j) < nAdds
                /\ LastOrdinalAt(j) + max_capacity >= nAdds
                /\ ret'.cols[c][j + 1] = RecordField(LastOrdinalAt(j), c)
          /\ nAdds <= max_capacity =>
                \A j \in 0..(size - 1) : LastOrdinalAt(j) = j
          /\ (nAdds > max_capacity /\ ptr # 0) =>
                \E j, k \in 0..(size - 1) :
                    j < k /\ ret'.cols[1][j + 1] > ret'.cols[1][k + 1]]_vars

C22_Witness ==
    /\ ret.op = "flush"
    /\ Len(ret.cols) = Arity
    /\ Len(ret.cols[1]) = max_capacity
    /\ ret.cols[1][1] = RecordField(max_capacity, 1)
    /\ ret.cols[1][2] = RecordField(1, 1)

\* C23: after clear or flush the store equals a freshly constructed store of
\* the same capacity: ptr = 0, size = 0, no columns, every leaf and the root
\* 0, max_priority and beta at their initial values.
C23_ClearIsFresh ==
    [][ret'.op \in {"clear", "flush"} =>
          /\ max_capacity' = max_capacity
          /\ priority_params' = priority_params
          /\ ptr' = 0
          /\ size' = 0
          /\ memory_buffers' = << >>
          /\ \A i \in 0..(NumLeaves(tree') - 1) : Leaves(tree')[i] = 0
          /\ Root(tree') = 0
          /\ tree' = SumTree(max_capacity)
          /\ max_priority' = InitMaxPriority
          /\ beta' = BetaInit]_vars

C23_Witness ==
    /\ ret.op = "clear"
    /\ returned = {0, 1}
    /\ size = 0
    /\ Root(tree) = 0
    /\ beta = BetaInit
    /\ max_priority = InitMaxPriority

\* C24: for a valid slot i and a non-negative p, a second call of
\* update_priorities([i], [p]) right after the first leaves every leaf, every
\* internal sum, the root and max_priority as the first call left them.
C24_UpdateIdempotent ==
    [][(/\ ret'.op = "update_priorities"
        /\ ret'.repeat
        /\ Len(ret'.indices) = 1
        /\ ret'.indices[1] < size
        /\ ret'.prios[1] >= 0) =>
          /\ ~ret'.raised
          /\ tree' = tree
          /\ max_priority' = max_priority]_vars

C24_Witness ==
    /\ ret.op = "update_priorities"
    /\ ret.repeat
    /\ ~ret.raised
    /\ Len(ret.indices) = 1
    /\ ret.indices[1] < size
    /\ ret.prios = <<2>>
    /\ Leaves(tree)[ret.indices[1]] = 2
    /\ max_priority = 2

\* every internal node of t is the sum of its two children
SumsConsistent(t) ==
    \A l \in 0..(TreeDepth(t) - 1) : \A j \in DOMAIN t[l] :
        t[l][j] = t[l + 1][2 * j] + t[l + 1][2 * j + 1]

\* C25: when update_priorities gets an index list with repeats, each index
\* ends with the priority of its last occurrence in the list, and the root and
\* all ancestor sums are the sums of the final leaf values.
C25_LastWriteWins ==
    [][(ret'.op = "update_priorities" /\ ~ret'.raised) =>
          /\ \A k \in DOMAIN ret'.indices :
                (\A j \in DOMAIN ret'.indices :
                     j > k => ret'.indices[j] # ret'.indices[k])
                    => Leaves(tree')[ret'.indices[k]] = ret'.prios[k]
          /\ SumsConsistent(tree')
          /\ Root(tree') = CumBelow(tree', NumLeaves(tree'))]_vars

C25_Witness ==
    /\ ret.op = "update_priorities"
    /\ ~ret.raised
    /\ ret.indices = <<1, 1>>
    /\ ret.prios = <<2, 0>>
    /\ size = 2
    /\ Leaves(tree)[1] = 0
    /\ Leaves(tree)[0] = 1
    /\ Root(tree) = 1

\* what one step does to max_priority
C30_Step ==
    /\ ret'.op = "update_priorities" =>
          /\ max_priority' >= max_priority
          /\ \A k \in DOMAIN ret'.prios : max_priority' >= ret'.prios[k]
          /\ \/ max_priority' = max_priority
             \/ \E k \in DOMAIN ret'.prios : max_priority' = ret'.prios[k]
    /\ ret'.op = "clear" => max_priority' = InitMaxPriority
    /\ ret'.op \notin {"update_priorities", "clear"} => max_priority' = max_priority

C26_BetaAnnealing ==
    [][/\ ret'.op = "sample_priority" =>
             beta' = IF beta + 1 > BetaOne THEN BetaOne ELSE beta + 1
       /\ ret'.op \in {"clear", "flush"} => beta' = BetaInit
       /\ ret'.op \notin {"sample_priority", "clear", "flush"} => beta' = beta
       /\ ret'.op \notin {"clear", "flush"} =>
             /\ beta' >= beta
             /\ beta = BetaOne => beta' = BetaOne
       /\ beta' <= BetaOne]_vars

\* C27: while size < capacity every add increases size by exactly 1; once
\* size = capacity every add leaves size unchanged and overwrites exactly one
\* slot; size never decreases under add, sample_* or update_priorities, and
\* only flush and clear lower it, back to the empty store.
C27_FillingFull ==
    [][/\ ret'.op = "add" =>
             /\ size < max_capacity => size' = size + 1
             /\ size = max_capacity =>
                   /\ size' = size
                   /\ DOMAIN memory_buffers' = DOMAIN memory_buffers
                   /\ \A c \in DOMAIN memory_buffers : \A s \in 0..(max_capacity - 1) :
                         IF s = ptr
                         THEN memory_buffers'[c][s] = ret'.rec[c]
                         ELSE memory_buffers'[c][s] = memory_buffers[c][s]
       /\ ret'.op \in SampleOps \cup {"update_priorities"} => size' = size
       /\ size' < size =>
             /\ ret'.op \in {"flush", "clear"}
             /\ size' = 0
             /\ ptr' = 0
             /\ memory_buffers' = << >>
       /\ ret'.op \in {"flush", "clear"} => size' = 0]_vars

C27_Witness ==
    /\ ret.op = "add"
    /\ nAdds = max_capacity + 2
    /\ size = max_capacity
    /\ ptr = 2
    /\ SlotHolds(1, LastRecord)
    /\ SlotHolds(0, Experience(nAdds - 2, Arity))

\* C28: when the total priority is 0 while size >= 1, sample_priority(n)
\* completes without a division by zero and every returned index is leaf 0.
C28_ZeroTotal ==
    (ret.op = "sample_priority" /\ size >= 1 /\ Root(tree) = 0) =>
        /\ ~ret.raised
        /\ Len(ret.indices) >= 1
        /\ \A k \in DOMAIN ret.indices : ret.indices[k] = 0
        /\ \A k \in DOMAIN ret.weights : ret.weights[k].den # 0

\* the tunable key of the configuration bag, or its default
Tunable(key, default) ==
    IF key \in DOMAIN priority_params THEN priority_params[key] ELSE default

\* C29: a store constructed with initial_beta = b, beta_increment = d and
\* epsilon = e starts with beta = b, raises beta by d per sample_priority call,
\* uses e in the inverse-priority denominator and resets beta to b on clear;
\* the defaults are 0.4, 2e-7 and 1e-6.
C29_ConfigurationBag ==
    /\ beta = Tunable("initial_beta", BetaInit)
    /\ [][/\ (ret'.op = "sample_priority" /\ ~ret'.raised) =>
                 beta' = Min(beta + Tunable("beta_increment", 1), BetaOne)
          /\ ret'.op = "sample_inverse_priority" =>
                 \A k \in DOMAIN ret'.inv :
                    /\ ret'.inv[k].num = Root(tree) * Tunable("epsilon_inv", EpsilonInv)
                    /\ ret'.inv[k].den =
                          Leaves(tree)[ret'.indices[k]] * Tunable("epsilon_inv", EpsilonInv) + 1
          /\ ret'.op = "clear" => beta' = Tunable("initial_beta", BetaInit)]_vars

\* C31: sample_uniform and sample_inverse_priority leave ptr, size, every
\* column, every leaf and the root of the store's Priority Index, max_priority
\* and beta unchanged; sample_priority changes nothing but beta.
C31_SamplingReadOnly ==
    [][ret'.op \in SampleOps =>
          /\ ptr' = ptr
          /\ size' = size
          /\ memory_buffers' = memory_buffers
          /\ tree' = tree
          /\ max_priority' = max_priority
          /\ max_capacity' = max_capacity
          /\ ret'.op # "sample_priority" => beta' = beta]_vars

C31_Witness ==
    /\ ret.op = "sample_inverse_priority"
    /\ ret.indices = <<1, 0>>
    /\ size = 2
    /\ Leaves(tree)[0] = 2
    /\ Leaves(tree)[1] = 1
    /\ Root(tree) = 3

\* C32: an add that writes slot s leaves the record and the leaf of every
\* other slot, max_priority and beta unchanged; update_priorities leaves every
\* column, ptr, size and beta unchanged.
C32_WriteFrames ==
    [][/\ ret'.op = "add" =>
             /\ \A s \in 0..(max_capacity - 1) : s # ptr =>
                   /\ \A c \in DOMAIN memory_buffers :
                         memory_buffers'[c][s] = memory_buffers[c][s]
                   /\ Leaves(tree')[s] = Leaves(tree)[s]
             /\ max_priority' = max_priority
             /\ beta' = beta
       /\ ret'.op = "update_priorities" =>
             /\ memory_buffers' = memory_buffers
             /\ ptr' = ptr
             /\ size' = size
             /\ beta' = beta]_vars

C32_Witness ==
    /\ ret.op = "add"
    /\ nAdds = max_capacity + 1
    /\ SlotHolds(0, LastRecord)
    /\ SlotHolds(1, Experience(1, Arity))
    /\ Leaves(tree)[0] = 2
    /\ Leaves(tree)[1] = 0
    /\ max_priority = 2

\* C33: 0 <= ptr < capacity and ptr = (number of adds since construction or
\* the last clear/flush) mod capacity; hence ptr = size whenever size <
\* capacity, and ptr may be any value of [0, capacity) when size = capacity.
C33_CursorSize ==
    /\ 0 <= ptr
    /\ ptr < max_capacity
    /\ ptr = nAdds % max_capacity
    /\ size < max_capacity => ptr = size
    /\ size = max_capacity => nAdds >= max_capacity

C33_Witness ==
    /\ size = max_capacity
    /\ ptr = 0
    /\ nAdds = max_capacity
    /\ ret.op = "add"

\* C34: when update_priorities is only called with indices < size, every leaf
\* at an index >= size is 0 and the root is the sum of the leaves of slots
\* [0, size).
C34_MassOnValidSlots ==
    /\ \A i \in size..(NumLeaves(tree) - 1) : Leaves(tree)[i] = 0
    /\ Root(tree) = CumBelow(tree, size)

C34_Witness ==
    /\ ret.op = "update_priorities"
    /\ size = 2
    /\ nAdds = 2
    /\ returned = {0, 1, 2}
    /\ Leaves(tree)[1] = 2
    /\ Root(tree) = 2

\* slot i has been overwritten since the indices of `returned' were sampled
Overwritten(i) == nAdds > max_capacity + i

\* C35: slot indices are not tied to records: when an add has overwritten
\* slot i after a sample call returned i, update_priorities on i is accepted
\* and the new record of slot i ends with the given priority; and as long as
\* no flush or clear intervenes every returned index stays below size.
C35_Step ==
    (/\ ret'.op = "update_priorities"
     /\ \E k \in DOMAIN ret'.indices : Overwritten(ret'.indices[k]))
    => /\ ~ret'.raised
       /\ \A k \in DOMAIN ret'.indices :
             LET i == ret'.indices[k]
             IN  /\ i \in returned
                 /\ i < size
                 /\ (\A j \in DOMAIN ret'.indices : j > k => ret'.indices[j] # i)
                       => Leaves(tree')[i] = ret'.prios[k]
                 /\ Overwritten(i) =>
                       \A c \in DOMAIN memory_buffers' :
                          memory_buffers'[c][i] =
                             Experience(max_capacity + i, Arity)[c]

C35_SlotIndices ==
    /\ [](\A i \in returned : i < size)
    /\ [][C35_Step]_vars

C35_Witness ==
    /\ ret.op = "update_priorities"
    /\ ~ret.raised
    /\ ret.indices = <<0>>
    /\ ret.prios = <<0>>
    /\ nAdds = max_capacity + 1
    /\ SlotHolds(0, Experience(max_capacity, Arity))
    /\ Leaves(tree)[0] = 0
    /\ max_priority = InitMaxPriority

\* the indices, weights and records of the sample_priority result in ret are
\* those one call on the store as it is now would return
OneSnapshot ==
    LET b == ret.weights[1].exp
    IN  /\ Len(ret.indices) = ClampBatch(ret.n, size)
        /\ ret.indices \in {TreeSample(tree, vs) :
                                vs \in DrawLists(tree, Len(ret.indices))}
        /\ beta = NextBeta(b)
        /\ \A k \in DOMAIN ret.indices :
              ret.weights[k] =
                 WeightOf(Leaves(tree)[ret.indices[k]],
                          SeqMin([j \in DOMAIN ret.indices |->
                                     Leaves(tree)[ret.indices[j]]]), b)
        /\ \A c \in DOMAIN memory_buffers : \A k \in DOMAIN ret.indices :
              ret.cols[c][k] = memory_buffers[c][ret.indices[k]]
        /\ Len(ret.cols) = Len(memory_buffers)

\* C36: with sample_priority run as three steps (draw the indices, read the
\* leaf priorities for the weights, gather the records), if every store
\* operation of every thread runs under one exclusive lock, the indices,
\* weights and records of each sample_priority result correspond to one
\* single store state.
C36_LockedSnapshot ==
    (/\ pending.locked
     /\ pending.pc = "idle"
     /\ ret.op = "sample_priority"
     /\ ~ret.raised) => OneSnapshot

C36_Witness ==
    /\ pending.locked
    /\ pending.pc = "idle"
    /\ ret.op = "sample_priority"
    /\ ret.indices = <<1, 0>>
    /\ size = 2
    /\ Leaves(tree)[0] = 2
    /\ Leaves(tree)[1] = 1
    /\ OneSnapshot

\* the store takes no lock: without the threads' lock a result is reached whose
\* parts belong to different store states
C36_TornUnlocked ==
    /\ ~pending.locked
    /\ pending.pc = "idle"
    /\ ret.op = "sample_priority"
    /\ ~ret.raised
    /\ ~OneSnapshot

\* C37: every train_policy call performs, in order, sample_uniform,
\* update_priorities, sample_priority, update_priorities and, only on
\* policy-update calls, sample_inverse_priority, with no add in between; every
\* update_priorities gets exactly the indices the sample call just before it
\* returned, with as many priorities, and never those of
\* sample_inverse_priority.
C37_Step ==
    LET call(op) == pending' = pending /\ ret' # ret /\ ret'.op = op
    IN  /\ call("add") => pending.pc = "idle"
        /\ call("sample_uniform") =>
              pending.pc = "train" /\ ret.op = "train_policy"
        /\ call("update_priorities") =>
              /\ pending.pc = "train"
              /\ ret.op \in {"sample_uniform", "sample_priority"}
              /\ ret'.indices = ret.indices
              /\ Len(ret'.prios) = Len(ret.indices)
              /\ ret'.after = ret.op
        /\ call("sample_priority") =>
              /\ pending.pc = "train"
              /\ ret.op = "update_priorities"
              /\ ret.after = "sample_uniform"
        /\ call("sample_inverse_priority") =>
              /\ pending.pc = "train"
              /\ ret.op = "update_priorities"
              /\ ret.after = "sample_priority"
              /\ pending.policy_update # 0
        /\ (pending.pc = "train" /\ pending'.pc = "idle") =>
              \/ ret.op = "sample_inverse_priority"
              \/ ret.op = "update_priorities" /\ ret.after = "sample_priority"

C37_CallerProtocol == [][C37_Step]_vars

C37_Witness ==
    /\ pending.pc = "idle"
    /\ pending.learn_counter = 1
    /\ pending.policy_update_freq = 2
    /\ pending.policy_update = 1
    /\ ret.op = "sample_inverse_priority"
    /\ Len(ret.indices) = 2
    /\ size = 2
    /\ Leaves(tree)[0] = 2
    /\ Leaves(tree)[1] = 1
    /\ beta = BetaInit + 1

C7_Witness ==
    /\ ret.op = "sample_priority"
    /\ LeavesAre(<<1, 1, 1, HighPrio>>)
    /\ ret.indices = <<3>>
====
